---------------------------- MODULE Spec2Model ----------------------------
(***************************************************************************)
(* Model of git-commit-large-repo-test.py: the large-file splitter, the    *)
(* change inventory, the directory aggregator, the batch planner and the   *)
(* batch committer, driven by main().                                      *)
(*                                                                         *)
(* A path is the sequence of its "/"-separated segments: "da/sb/g1" is     *)
(* <<"da","sb","g1">>, the directory entry "da/" is <<"da","">>, "." is    *)
(* <<".">> and the empty string is <<>>.  Sizes are whole megabytes.       *)
(***************************************************************************)
EXTENDS Integers, Sequences, FiniteSets, TLC

(***************************************************************************)
(* Program constants                                                       *)
(***************************************************************************)
LargeFileMB == 50
ChunkMB == 50
CollapseMB == 50
CeilingMB == 100
SingleShotMB == 100
\* line 40: a size in MB is bytes / (1024 * 1024). The model counts sizes in
\* KiB, rounded up, so that a file of a few bytes weighs more than nothing
KiBPerMB == 1024
MB(n) == n * KiBPerMB

(***************************************************************************)
(* Bounds of the model                                                     *)
(***************************************************************************)
\* faults of one run: commands that fail, and changes another process makes
\* to the working tree while the batches are committed
MaxFaults == 1
\* largest number of 5 MB files in the directory of scenario 4
MaxN == 41
\* a set of equal-depth units up to this size is iterated in every order
MaxPermuted == 4
\* executions of the planner on one snapshot
MaxRuns == 2

\* bytes of a file given to split_large_file, and bytes of a chunk
MaxLen == 5
MaxChunk == 3

\* pieces of a .gitignore text, and calls of process_single_large_file
MaxText == 6
MaxCalls == 2

(***************************************************************************)
(* Paths                                                                   *)
(***************************************************************************)
\* every segment of the model's universe, in byte order of the strings
SegOrder ==
  << "", ".", ".git", ".gitignore", "1", "HEAD", "a", "da",
     "f1", "f1-part0001", "f1-part0002", "f1-part0003", "f1-part0004",
     "f1-part0005", "f1-part0006", "f1-split", "f2", "g1", "g2", "sb",
     "t1", "t1-part0001", "t1-part0002", "t1-part0003", "t1-part0004",
     "t1-part0005", "t1-part0006", "t1-split",
     "x01", "x02", "x03", "x04", "x05", "x06", "x07", "x08", "x09", "x10",
     "x11", "x12", "x13", "x14", "x15", "x16", "x17", "x18", "x19", "x20",
     "x21", "x22", "x23", "x24", "x25", "x26", "x27", "x28", "x29", "x30",
     "x31", "x32", "x33", "x34", "x35", "x36", "x37", "x38", "x39", "x40",
     "x41", "x42", "x43", "x44", "x45" >>

Rank(s) == CHOOSE i \in 1..Len(SegOrder) : SegOrder[i] = s

Range(s) == {s[i] : i \in 1..Len(s)}

Last(s) == s[Len(s)]

\* byte order of two paths, segment by segment
RECURSIVE PathLess(_, _)
PathLess(p, q) ==
  IF p = <<>> THEN q # <<>>
  ELSE IF q = <<>> THEN FALSE
  ELSE IF p[1] = q[1] THEN PathLess(Tail(p), Tail(q))
  ELSE Rank(p[1]) < Rank(q[1])

\* the paths of S as a sequence in byte order
RECURSIVE SortPaths(_)
SortPaths(S) ==
  IF S = {} THEN <<>>
  ELSE LET m == CHOOSE x \in S : \A y \in S \ {x} : PathLess(x, y)
       IN <<m>> \o SortPaths(S \ {m})

\* os.path.dirname
Dirname(p) == IF p = <<>> THEN <<>> ELSE SubSeq(p, 1, Len(p) - 1)

\* os.path.basename
Basename(p) == IF p = <<>> THEN "" ELSE Last(p)

\* x.count(os.sep)
Depth(p) == Len(p) - 1

\* os.path.normpath: "da/" is "da", "./da/f1" is "da/f1"
Norm(p) == SelectSeq(p, LAMBDA s : s # "" /\ s # ".")

\* os.path.join(root, name)
Join(root, name) ==
  IF root = <<>> THEN <<name>>
  ELSE IF Last(root) = "" THEN SubSeq(root, 1, Len(root) - 1) \o <<name>>
  ELSE root \o <<name>>

IsPrefix(d, p) == Len(d) <= Len(p) /\ SubSeq(p, 1, Len(d)) = d

\* the names that formatting builds from a file name
SplitDirName(n) ==
  CASE n = "t1" -> "t1-split"
    [] n = "f1" -> "f1-split"

PartName(n, k) ==
  CASE n = "t1" -> <<"t1-part0001", "t1-part0002", "t1-part0003", "t1-part0004",
                      "t1-part0005", "t1-part0006">>[k]
    [] n = "f1" -> <<"f1-part0001", "f1-part0002", "f1-part0003", "f1-part0004",
                      "f1-part0005", "f1-part0006">>[k]

MergedName(n) ==
  CASE n = "t1" -> "t1.merged"
    [] n = "f1" -> "f1.merged"
    [] OTHER -> "other.merged"

\* a string without its first character (the first segment of a path)
DropFirstChar(s) ==
  CASE s = "da" -> "a"
    [] s = "t1" -> "1"

(***************************************************************************)
(* State                                                                   *)
(***************************************************************************)
VARIABLES
  disk,             \* the working tree: file path -> size in MB
  index,            \* the paths git tracks
  changed,          \* tracked paths whose content differs from the index
  staged,           \* TRUE: the tracked changes are staged (XY is "M " / "D ")
  ignoreLines,      \* directory -> the lines of its .gitignore file
  pc,               \* the position of main()
  splitFiles,       \* the files process_large_untracked_files split
  git_files,        \* get_git_status: file_list
  deleted_files,    \* get_git_status: deleted_files
  all_files,        \* scan_and_categorize_files: all_files
  files_dict,       \* scan_and_categorize_files: result_dict
  deleted_files_by_dir,
  sorted_dirs,      \* commit_in_batches: sorted_dirs
  batches,          \* commit_in_batches: batches
  mode,             \* the path execute_git_commands took
  cmds,             \* the commands issued, in order, with their outcome
  batchNo,          \* commit_in_batches: the batches handed to commit_batch
  returns,          \* what each commit_batch call returned
  committed_size,   \* commit_in_batches: committed_size
  result,           \* what execute_git_commands returned
  exitCode,         \* the exit status of the process
  fsChanges,        \* changes made by other processes so far
  prevBatches,      \* the batches of the previous planning run
  runs,             \* planning runs started
  statusOk,         \* FALSE: the status query of get_git_status failed
  splitPath,        \* process_single_large_file: the file it is called on
  splitContent,     \* the bytes of that file
  splitChunk,       \* split_large_file: chunk_size, in bytes
  splitParts,       \* the part files written: path -> bytes
  gitignoreVersions \* the lines of the .gitignore before and after each call

envVars == <<disk, index, changed, staged, ignoreLines>>
scanVars == <<statusOk, git_files, deleted_files, all_files, files_dict,
              deleted_files_by_dir>>
planVars == <<sorted_dirs, batches>>
execVars == <<mode, cmds, batchNo, returns, committed_size, result, exitCode>>
splitterVars == <<splitPath, splitContent, splitChunk, splitParts, gitignoreVersions>>
vars == <<disk, index, changed, staged, ignoreLines, pc, splitFiles,
          git_files, deleted_files, all_files, files_dict, deleted_files_by_dir,
          sorted_dirs, batches, mode, cmds, batchNo, returns, committed_size,
          result, exitCode, fsChanges, prevBatches, runs, statusOk,
          splitPath, splitContent, splitChunk, splitParts, gitignoreVersions>>

(***************************************************************************)
(* The filesystem                                                          *)
(***************************************************************************)
\* os.path.isfile
IsFile(dsk, p) == Norm(p) \in DOMAIN dsk

\* os.path.isdir: a directory holds at least one file
IsDir(dsk, p) ==
  /\ p # <<>>
  /\ \E f \in DOMAIN dsk : IsPrefix(Norm(p), f) /\ f # Norm(p)

\* os.path.exists
PathExists(dsk, p) == IsFile(dsk, p) \/ IsDir(dsk, p)

\* get_file_size_mb: the size (in KiB, see MB), 0 when the file cannot be read
get_file_size_mb(dsk, p) == IF IsFile(dsk, p) THEN dsk[Norm(p)] ELSE 0

RECURSIVE Concat(_)
Concat(ss) == IF ss = <<>> THEN <<>> ELSE Head(ss) \o Concat(Tail(ss))

\* os.walk(root): the files of root, then those of each sub-directory; the
\* filesystem lists a directory in one fixed order, here byte order
RECURSIVE Walk(_, _)
Walk(dsk, root) ==
  LET here == Norm(root)
      below == {f \in DOMAIN dsk : IsPrefix(here, f) /\ f # here}
      files == SortPaths({f \in below : Len(f) = Len(here) + 1})
      subs == SortPaths({SubSeq(f, 1, Len(here) + 1) :
                           f \in {g \in below : Len(g) > Len(here) + 1}})
  IN [i \in 1..Len(files) |-> Join(root, Last(files[i]))]
       \o Concat([i \in 1..Len(subs) |-> Walk(dsk, Join(root, Last(subs[i])))])

\* dict assignment d[k] = v
Put(f, k, v) == [x \in DOMAIN f \cup {k} |-> IF x = k THEN v ELSE f[x]]

(***************************************************************************)
(* git status --porcelain, as git answers it                               *)
(***************************************************************************)
\* a file is ignored when a .gitignore at or above it names one of its segments
Ignored(ign, p) ==
  \E k \in 0..(Len(p) - 1) :
    /\ SubSeq(p, 1, k) \in DOMAIN ign
    /\ \E j \in (k + 1)..Len(p) : p[j] \in Range(ign[SubSeq(p, 1, k)])

\* an untracked file is reported by its topmost directory that holds no
\* tracked file ("da/"), or by its own path
UntrackedEntry(idx, p) ==
  LET free == {k \in 1..(Len(p) - 1) :
                 \A t \in idx : ~IsPrefix(SubSeq(p, 1, k), t)}
  IN IF free = {} THEN p
     ELSE SubSeq(p, 1, CHOOSE k \in free : \A j \in free : k <= j) \o <<"">>

\* the lines of the output: the tracked changes in path order, then the
\* untracked entries in path order; a line is its X and Y columns and its path
GitStatus(dsk, idx, chg, stg, ign) ==
  LET trackedChanges == SortPaths({p \in idx : p \notin DOMAIN dsk} \cup chg)
      code(p) == IF p \notin DOMAIN dsk
                 THEN (IF stg THEN <<"D", " ">> ELSE <<" ", "D">>)
                 ELSE (IF stg THEN <<"M", " ">> ELSE <<" ", "M">>)
      untracked == SortPaths({UntrackedEntry(idx, p) :
                     p \in {q \in DOMAIN dsk : /\ q \notin idx
                                               /\ q[1] # ".git"
                                               /\ ~Ignored(ign, q)}})
  IN [i \in 1..Len(trackedChanges) |->
        [xy |-> code(trackedChanges[i]), path |-> trackedChanges[i]]]
     \o [i \in 1..Len(untracked) |-> [xy |-> <<"?", "?">>, path |-> untracked[i]]]

(***************************************************************************)
(* LargeFileSplitter                                                       *)
(***************************************************************************)
\* split_large_file: sequential reads of chunk_size until the file is exhausted,
\* part k written to <name>-split/<name>-part000k
split_large_file(dsk, file_path) ==
  LET size == dsk[file_path]
      file_dir == Dirname(file_path)
      file_name == Basename(file_path)
      split_dir == Join(file_dir, SplitDirName(file_name))
      chunk_size == MB(ChunkMB)
      nparts == (size + chunk_size - 1) \div chunk_size
      chunk(k) == IF k * chunk_size <= size THEN chunk_size
                  ELSE size - (k - 1) * chunk_size
      parts == {Join(split_dir, PartName(file_name, k)) : k \in 1..nparts}
      numOf(q) == CHOOSE k \in 1..nparts : Join(split_dir, PartName(file_name, k)) = q
  IN [q \in DOMAIN dsk \cup parts |-> IF q \in parts THEN chunk(numOf(q)) ELSE dsk[q]]

\* ReadChunks that leaves out a last chunk shorter than chunk_size
RECURSIVE ReadChunksWholeOnly(_, _)
ReadChunksWholeOnly(content, chunk_size) ==
  IF Len(content) < chunk_size THEN <<>>
  ELSE <<SubSeq(content, 1, chunk_size)>>
       \o ReadChunksWholeOnly(SubSeq(content, chunk_size + 1, Len(content)),
                              chunk_size)

\* lines 18-29 on the bytes of the file: f.read(chunk_size) until it answers
\* nothing, each chunk a part
RECURSIVE ReadChunks(_, _)
ReadChunks(content, chunk_size) ==
  IF content = <<>> THEN <<>>
  ELSE LET n == IF Len(content) < chunk_size THEN Len(content) ELSE chunk_size
       IN <<SubSeq(content, 1, n)>>
          \o ReadChunks(SubSeq(content, n + 1, Len(content)), chunk_size)

\* split_large_file on the bytes of the file: the part files it writes
SplitParts(file_path, content, chunk_size) ==
  LET file_name == Basename(file_path)
      split_dir == Join(Dirname(file_path), SplitDirName(file_name))
      chunks == ReadChunks(content, chunk_size)
      part(k) == Join(split_dir, PartName(file_name, k))
  IN [q \in {part(k) : k \in 1..Len(chunks)} |->
        chunks[CHOOSE k \in 1..Len(chunks) : part(k) = q]]

\* find_large_files
find_large_files(dsk, directory) ==
  SelectSeq(Walk(dsk, directory),
            LAMBDA f : get_file_size_mb(dsk, f) > MB(LargeFileMB))

\* a text is a sequence of newlines and of runs of other characters
Newline == "\n"

\* str.splitlines: the text cut at its newlines; a text that ends with a
\* newline has no empty last line
RECURSIVE splitlines(_)
splitlines(text) ==
  IF text = <<>> THEN <<>>
  ELSE IF Head(text) = Newline THEN <<"">> \o splitlines(Tail(text))
  ELSE IF Len(text) = 1 THEN <<Head(text)>>
  ELSE <<Head(text)>> \o splitlines(SubSeq(text, 3, Len(text)))

\* "\n".join(lines)
RECURSIVE JoinLines(_)
JoinLines(lines) ==
  IF lines = <<>> THEN <<>>
  ELSE (IF Head(lines) = "" THEN <<>> ELSE <<Head(lines)>>)
       \o (IF Len(lines) > 1 THEN <<Newline>> \o JoinLines(Tail(lines)) ELSE <<>>)

\* lines 108-111: the two patterns, each appended when it is no line yet
AppendPatterns(gitignore_content, file_name) ==
  LET p1 == file_name
      p2 == MergedName(file_name)
      c1 == IF p1 \in Range(gitignore_content) THEN gitignore_content
            ELSE Append(gitignore_content, p1)
  IN IF p2 \in Range(c1) THEN c1 ELSE Append(c1, p2)

\* lines 103-113 on the text of the .gitignore (empty when there is none):
\* read and cut into lines, append, join and write
gitignore_update(text, file_name) ==
  JoinLines(AppendPatterns(splitlines(text), file_name))

\* process_single_large_file on st = [disk, ign, split]; the merge executable
\* is not installed beside the script, so none is copied
process_single_large_file(st, file_path) ==
  LET file_dir == Dirname(file_path)
      file_name == Basename(file_path)
      gitignore_path == Join(file_dir, ".gitignore")
      old == IF IsFile(st.disk, gitignore_path) THEN st.ign[file_dir] ELSE <<>>
  IN [disk |-> split_large_file(Put(st.disk, gitignore_path, 1), file_path),
      ign |-> Put(st.ign, file_dir, AppendPatterns(old, file_name)),
      split |-> st.split \cup {file_path}]

RECURSIVE ProcessEach(_, _)
ProcessEach(st, large_files) ==
  IF large_files = <<>> THEN st
  ELSE ProcessEach(process_single_large_file(st, Head(large_files)),
                   Tail(large_files))

\* the large_files list of process_large_untracked_files: the untracked
\* entries of the status output, files over the threshold as they are,
\* directories searched once each
RECURSIVE LargeUntracked(_, _, _)
LargeUntracked(dsk, lines, processed_dirs) ==
  IF lines = <<>> THEN <<>>
  ELSE LET line == Head(lines)
           item_path == line.path
           dir_path == Norm(item_path)
       IN IF line.xy # <<"?", "?">>
          THEN LargeUntracked(dsk, Tail(lines), processed_dirs)
          ELSE IF IsFile(dsk, item_path)
          THEN (IF get_file_size_mb(dsk, item_path) > MB(LargeFileMB)
                THEN <<item_path>> ELSE <<>>)
               \o LargeUntracked(dsk, Tail(lines), processed_dirs)
          ELSE IF IsDir(dsk, item_path) /\ dir_path \notin processed_dirs
          THEN find_large_files(dsk, dir_path)
               \o LargeUntracked(dsk, Tail(lines), processed_dirs \cup {dir_path})
          ELSE LargeUntracked(dsk, Tail(lines), processed_dirs)

process_large_untracked_files(dsk, idx, chg, stg, ign) ==
  ProcessEach([disk |-> dsk, ign |-> ign, split |-> {}],
              LargeUntracked(dsk, GitStatus(dsk, idx, chg, stg, ign), {}))

(***************************************************************************)
(* ChangeInventory                                                         *)
(***************************************************************************)
\* the output is stripped as a whole before it is cut into lines: when the
\* first line starts with a blank X column that blank is lost, the Y column
\* is read as X and the path loses its first character
LineStatus(lines, i) ==
  IF i = 1 /\ lines[i].xy[1] = " "
  THEN <<lines[i].xy[2], " ">>
  ELSE lines[i].xy

LineFilename(lines, i) ==
  IF i = 1 /\ lines[i].xy[1] = " "
  THEN <<DropFirstChar(lines[i].path[1])>> \o Tail(lines[i].path)
  ELSE lines[i].path

\* get_git_status: [file_list, deleted_files]
get_git_status(lines) ==
  LET isDeleted(i) == LineStatus(lines, i)[1] = "D" \/ LineStatus(lines, i)[2] = "D"
      deletedIdx == {i \in 1..Len(lines) : isDeleted(i)}
      pick(S) == LET RECURSIVE Go(_)
                     Go(i) == IF i > Len(lines) THEN <<>>
                              ELSE (IF i \in S THEN <<LineFilename(lines, i)>> ELSE <<>>)
                                   \o Go(i + 1)
                 IN Go(1)
  IN [file_list |-> pick((1..Len(lines)) \ deletedIdx),
      deleted_files |-> pick(deletedIdx)]

\* StatusQuery that parses what the query printed although it failed
StatusQueryNoCatch(ok, lines) == get_git_status(lines)

\* lines 131-154: the status query runs with check=True, a non-zero exit
\* raises and the except branch answers two empty lists
StatusQuery(ok, lines) ==
  IF ok THEN get_git_status(lines)
  ELSE [file_list |-> <<>>, deleted_files |-> <<>>]

(***************************************************************************)
(* DirectoryAggregator                                                     *)
(***************************************************************************)
RECURSIVE SumSize(_)
SumSize(fs) == IF fs = <<>> THEN 0 ELSE Head(fs).size + SumSize(Tail(fs))

\* sorted(keys, key=depth, reverse=True): a stable sort, deepest first
SortDeepestFirst(keys) ==
  LET RECURSIVE Go(_)
      Go(k) == IF k < 0 THEN <<>>
               ELSE SelectSeq(keys, LAMBDA x : Depth(x) = k) \o Go(k - 1)
      deepest == IF keys = <<>> THEN 0
                 ELSE CHOOSE k \in {Depth(x) : x \in Range(keys)} :
                        \A x \in Range(keys) : Depth(x) <= k
  IN Go(deepest)

\* scan_directory of a directory: its files with their sizes
scan_directory(dsk, path) ==
  LET w == Walk(dsk, path)
  IN [i \in 1..Len(w) |-> [path |-> w[i], size |-> get_file_size_mb(dsk, w[i])]]

\* lines 183-191: all_files, directories of the status output expanded
RECURSIVE ExpandAdded(_, _)
ExpandAdded(dsk, files) ==
  IF files = <<>> THEN <<>>
  ELSE (IF IsDir(dsk, Head(files))
        THEN scan_directory(dsk, Head(files))
        ELSE <<[path |-> Head(files), size |-> get_file_size_mb(dsk, Head(files))]>>)
       \o ExpandAdded(dsk, Tail(files))

\* the keys of dir_files_map in insertion order
RECURSIVE DirKeys(_, _)
DirKeys(fs, seen) ==
  IF fs = <<>> THEN <<>>
  ELSE LET d == Dirname(Head(fs).path)
       IN IF d = <<>> \/ d \in seen THEN DirKeys(Tail(fs), seen)
          ELSE <<d>> \o DirKeys(Tail(fs), seen \cup {d})

\* lines 216-219: every file of the directory becomes a unit of its own
RECURSIVE EmitFiles(_, _)
EmitFiles(acc, current_files) ==
  IF current_files = <<>> THEN acc
  ELSE LET f == Head(current_files)
       IN IF f.path \notin acc.processed_files
          THEN EmitFiles([result_dict |-> Put(acc.result_dict, f.path, f.size),
                          processed_files |-> acc.processed_files \cup {f.path}],
                         Tail(current_files))
          ELSE EmitFiles(acc, Tail(current_files))

\* CategorizeDir with the batch ceiling taken for the collapse threshold
CategorizeDirCeiling(afs, acc, dir_path) ==
  LET current_files ==
        SelectSeq(afs, LAMBDA f : /\ Dirname(f.path) = dir_path
                                  /\ f.path \notin acc.processed_files)
      total_size == SumSize(current_files)
  IN IF current_files = <<>> THEN acc
     ELSE IF total_size <= MB(CeilingMB)
     THEN [result_dict |-> Put(acc.result_dict, dir_path, total_size),
           processed_files |-> acc.processed_files
                                 \cup {f.path : f \in Range(current_files)}]
     ELSE EmitFiles(acc, current_files)

\* lines 206-219: one directory of the loop over dir_files_map
CategorizeDir(afs, acc, dir_path) ==
  LET current_files ==
        SelectSeq(afs, LAMBDA f : /\ Dirname(f.path) = dir_path
                                  /\ f.path \notin acc.processed_files)
      total_size == SumSize(current_files)
  IN IF current_files = <<>> THEN acc
     ELSE IF total_size <= MB(CollapseMB)
     THEN [result_dict |-> Put(acc.result_dict, dir_path, total_size),
           processed_files |-> acc.processed_files
                                 \cup {f.path : f \in Range(current_files)}]
     ELSE EmitFiles(acc, current_files)

RECURSIVE CategorizeDirs(_, _, _)
CategorizeDirs(afs, acc, dirs) ==
  IF dirs = <<>> THEN acc
  ELSE CategorizeDirs(afs, CategorizeDir(afs, acc, Head(dirs)), Tail(dirs))

\* TopLevelFiles that leaves the files with no directory component out
TopLevelFilesNone(acc, afs) == acc

\* lines 221-223: the files with no directory component
RECURSIVE TopLevelFiles(_, _)
TopLevelFiles(acc, afs) ==
  IF afs = <<>> THEN acc
  ELSE LET f == Head(afs)
       IN IF Dirname(f.path) = <<>> /\ f.path \notin acc.processed_files
          THEN TopLevelFiles([acc EXCEPT !.result_dict = Put(@, f.path, f.size)],
                             Tail(afs))
          ELSE TopLevelFiles(acc, Tail(afs))

\* lines 226-229: the deleted paths by directory, "." for the top level
DeletedDir(p) == IF Dirname(p) = <<>> THEN <<".">> ELSE Dirname(p)

GroupDeleted(dels) ==
  [d \in {DeletedDir(p) : p \in Range(dels)} |->
     SelectSeq(dels, LAMBDA p : DeletedDir(p) = d)]

\* scan_and_categorize_files, given what get_git_status returned
scan_and_categorize_files(dsk, status) ==
  LET afs == ExpandAdded(dsk, status.file_list)
      nothing == [all_files |-> <<>>, result_dict |-> <<>>,
                  deleted_files |-> <<>>, deleted_files_by_dir |-> <<>>]
      dirs == CategorizeDirs(afs,
                             [result_dict |-> <<>>, processed_files |-> {}],
                             SortDeepestFirst(DirKeys(afs, {})))
  IN IF status.file_list = <<>> /\ status.deleted_files = <<>> THEN nothing
     ELSE IF afs = <<>> /\ status.deleted_files = <<>> THEN nothing
     ELSE [all_files |-> afs,
           result_dict |-> TopLevelFiles(dirs, afs).result_dict,
           deleted_files |-> status.deleted_files,
           deleted_files_by_dir |-> GroupDeleted(status.deleted_files)]

(***************************************************************************)
(* BatchPlanner                                                            *)
(***************************************************************************)
RECURSIVE Perms(_)
Perms(S) ==
  IF S = {} THEN {<<>>}
  ELSE UNION {{<<x>> \o q : q \in Perms(S \ {x})} : x \in S}

Reverse(s) == [i \in 1..Len(s) |-> s[Len(s) + 1 - i]]

Rotations(s) ==
  {SubSeq(s, k + 1, Len(s)) \o SubSeq(s, 1, k) : k \in 0..(Len(s) - 1)}

\* the orders in which a set of strings may be iterated: the order follows the
\* hashes of the strings, which differ from one process to the next
IterationOrders(S) ==
  IF Cardinality(S) <= MaxPermuted THEN Perms(S)
  ELSE Rotations(SortPaths(S)) \cup Rotations(Reverse(SortPaths(S)))

\* line 318: sorted(all_dirs, key=depth, reverse=True); the sort is stable, so
\* units of one depth keep the order the set was iterated in
RECURSIVE SortedFrom(_, _)
SortedFrom(S, k) ==
  IF k < 0 THEN {<<>>}
  ELSE {a \o b : a \in IterationOrders({x \in S : Depth(x) = k}),
                 b \in SortedFrom(S, k - 1)}

SortedDirs(S) ==
  SortedFrom(S, IF S = {} THEN 0
                ELSE CHOOSE k \in {Depth(x) : x \in S} : \A x \in S : Depth(x) <= k)

\* lines 310-315: the units, a unit of size 0 for a directory with deletions only
WithDeletedDirs(fd, dbd) ==
  [k \in DOMAIN fd \cup DOMAIN dbd |-> IF k \in DOMAIN fd THEN fd[k] ELSE 0]

\* CloseBatch without the reset of the accumulators
CloseBatchNoReset(pl) ==
  [pl EXCEPT !.batches = Append(@, [addPaths |-> pl.current_batch,
                                    deletePaths |-> pl.current_deleted,
                                    totalSizeMB |-> pl.current_size,
                                    units |-> pl.current_units])]

\* lines 344-345 and 364-367: close the current batch
CloseBatch(pl) ==
  [pl EXCEPT !.batches = Append(@, [addPaths |-> pl.current_batch,
                                    deletePaths |-> pl.current_deleted,
                                    totalSizeMB |-> pl.current_size,
                                    units |-> pl.current_units]),
             !.current_batch = <<>>, !.current_deleted = <<>>,
             !.current_size = 0, !.current_units = {}]

\* lines 358-369: the files of a unit over the ceiling, one by one
RECURSIVE SplitBigUnit(_, _, _, _)
SplitBigUnit(dsk, pl, dir_path, dir_files) ==
  IF dir_files = <<>> THEN pl
  ELSE LET file_path == Head(dir_files)
           file_size == get_file_size_mb(dsk, file_path)
           open == IF /\ pl.current_size + file_size > MB(CeilingMB)
                      /\ (pl.current_batch # <<>> \/ pl.current_deleted # <<>>)
                   THEN CloseBatch(pl) ELSE pl
       IN IF file_size <= MB(CeilingMB)
          THEN SplitBigUnit(dsk,
                 [open EXCEPT !.current_batch = Append(@, file_path),
                              !.current_size = @ + file_size,
                              !.current_units = @ \cup {dir_path}],
                 dir_path, Tail(dir_files))
          ELSE SplitBigUnit(dsk, pl, dir_path, Tail(dir_files))

\* lines 321-337: the files and the size of one unit
UnitFiles(dsk, fd, dir_path) ==
  IF dir_path \in DOMAIN fd /\ IsDir(dsk, dir_path)
  THEN Walk(dsk, dir_path)
  ELSE IF dir_path \in DOMAIN fd /\ PathExists(dsk, dir_path)
  THEN <<dir_path>>
  ELSE <<>>

RECURSIVE SumFileSizes(_, _)
SumFileSizes(dsk, fs) ==
  IF fs = <<>> THEN 0
  ELSE get_file_size_mb(dsk, Head(fs)) + SumFileSizes(dsk, Tail(fs))

UnitSize(dsk, fd, dir_path) ==
  IF dir_path \in DOMAIN fd /\ IsDir(dsk, dir_path)
  THEN SumFileSizes(dsk, Walk(dsk, dir_path))
  ELSE IF dir_path \in DOMAIN fd /\ PathExists(dsk, dir_path)
  THEN fd[dir_path]
  ELSE 0

\* lines 320-369: one unit of the planning loop
PlanUnit(dsk, fd, dbd, pl, dir_path) ==
  LET dir_files == UnitFiles(dsk, fd, dir_path)
      dir_size == UnitSize(dsk, fd, dir_path)
      dir_deleted == IF dir_path \in DOMAIN dbd THEN dbd[dir_path] ELSE <<>>
      open == IF /\ pl.current_size + dir_size > MB(CeilingMB)
                 /\ (pl.current_batch # <<>> \/ pl.current_deleted # <<>>)
              THEN CloseBatch(pl) ELSE pl
      added == [open EXCEPT !.current_batch = @ \o dir_files,
                            !.current_deleted = @ \o dir_deleted,
                            !.current_size = @ + dir_size,
                            !.current_units =
                               IF dir_files = <<>> /\ dir_deleted = <<>>
                               THEN @ ELSE @ \cup {dir_path}]
  IN IF dir_size > MB(CeilingMB)
     THEN SplitBigUnit(dsk, added, dir_path, dir_files)
     ELSE added

RECURSIVE PlanUnits(_, _, _, _, _)
PlanUnits(dsk, fd, dbd, pl, dirs) ==
  IF dirs = <<>> THEN pl
  ELSE LET next == PlanUnit(dsk, fd, dbd, pl, Head(dirs))
       \* the test is always true: it has the step computed before the
       \* loop goes on, as the program does, and not nested in the next one
       IN IF next.current_size >= 0
          THEN PlanUnits(dsk, fd, dbd, next, Tail(dirs))
          ELSE next

\* lines 306-373: the batches planned for the units in the order given
PlanBatchesFor(dsk, fd, dbd, dirs) ==
  LET pl == PlanUnits(dsk, fd, dbd,
                      [batches |-> <<>>, current_batch |-> <<>>,
                       current_deleted |-> <<>>, current_size |-> 0,
                       current_units |-> {}],
                      dirs)
  IN IF pl.current_batch # <<>> \/ pl.current_deleted # <<>>
     THEN CloseBatch(pl).batches
     ELSE pl.batches

(***************************************************************************)
(* BatchCommitter and Driver                                               *)
(***************************************************************************)
\* the sets of commands, by position, that the environment may let fail
RECURSIVE UpTo(_, _)
UpTo(n, k) ==
  IF k <= 0 THEN {{}}
  ELSE UpTo(n, k - 1) \cup {F \cup {i} : F \in UpTo(n, k - 1), i \in 1..n}

Failed(done) == Cardinality({i \in 1..Len(done) : ~done[i].ok})

FailSets(n, done, changes) == UpTo(n, MaxFaults - Failed(done) - changes)

\* ValidPaths without the test of line 256
ValidPathsUntested(dsk, file_paths) == file_paths

\* lines 254-274 of commit_batch: the paths still present, the deletions absent
ValidPaths(dsk, file_paths) == SelectSeq(file_paths, LAMBDA q : PathExists(dsk, q))

ValidDeletedPaths(dsk, deleted_paths) ==
  SelectSeq(deleted_paths, LAMBDA q : ~PathExists(dsk, q))

\* lines 280-290: one command for each valid path; F holds the failing positions
StagingCmds(valid_paths, valid_deleted_paths, F, n) ==
  [i \in 1..Len(valid_paths) |->
     [cmd |-> "add", path |-> Norm(valid_paths[i]), ok |-> i \notin F, batch |-> n]]
  \o [i \in 1..Len(valid_deleted_paths) |->
        [cmd |-> "rm", path |-> Norm(valid_deleted_paths[i]),
         ok |-> (Len(valid_paths) + i) \notin F, batch |-> n]]

\* run_git_commands: every command of the list is run, the result is their
\* conjunction; F holds the failing positions, counted from position `from`
run_git_commands(names, F, from, n) ==
  [i \in 1..Len(names) |->
     [cmd |-> names[i], path |-> <<>>, ok |-> (from + i) \notin F, batch |-> n]]

AllOk(cs) == \A i \in 1..Len(cs) : cs[i].ok

\* commit_batch: the commands it issues and what it returns
commit_batch(dsk, b, F, n) ==
  LET valid_paths == ValidPaths(dsk, b.addPaths)
      valid_deleted_paths == ValidDeletedPaths(dsk, b.deletePaths)
      staging == StagingCmds(valid_paths, valid_deleted_paths, F, n)
      successful == Cardinality({i \in 1..Len(staging) : staging[i].ok})
      final == run_git_commands(<<"commit", "push">>, F, Len(staging), n)
  IN IF valid_paths = <<>> /\ valid_deleted_paths = <<>>
     THEN [cmds |-> <<>>, ret |-> FALSE, staged |-> 0, valid |-> 0]
     ELSE IF successful > 0
     THEN [cmds |-> staging \o final, ret |-> AllOk(final),
           staged |-> successful, valid |-> Len(staging)]
     ELSE [cmds |-> staging, ret |-> TRUE, staged |-> 0, valid |-> Len(staging)]

\* line 400 of execute_git_commands
RECURSIVE SumValues(_, _)
SumValues(fd, keys) ==
  IF keys = {} THEN 0
  ELSE LET k == CHOOSE x \in keys : TRUE
       IN fd[k] + SumValues(fd, keys \ {k})

\* SingleShotCase without the test of the Deleted list
SingleShotCaseSizeOnly(fd, dels) ==
  SumValues(fd, DOMAIN fd) <= MB(SingleShotMB)

SingleShotCase(fd, dels) ==
  LET total_size == SumValues(fd, DOMAIN fd)
  IN total_size <= MB(SingleShotMB) /\ Len(dels) = 0

(***************************************************************************)
(* Actions                                                                 *)
(***************************************************************************)
\* main, line 420
ProcessLargeUntrackedFiles ==
  /\ pc = "start"
  /\ \E ok \in BOOLEAN :
       \* lines 63-70 and 93: when the status query fails nothing is done
       LET st == IF ok
                 THEN process_large_untracked_files(disk, index, changed, staged,
                                                    ignoreLines)
                 ELSE [disk |-> disk, ign |-> ignoreLines, split |-> {}]
       IN /\ disk' = st.disk
          /\ ignoreLines' = st.ign
          /\ splitFiles' = st.split
  /\ pc' = "scan"
  /\ UNCHANGED splitterVars
  /\ UNCHANGED <<index, changed, staged, scanVars, planVars, execVars,
                 fsChanges, prevBatches, runs>>

\* main, lines 421-424
ScanAndCategorizeFiles ==
  /\ pc = "scan"
  /\ \E ok \in BOOLEAN :
       LET status == StatusQuery(ok, GitStatus(disk, index, changed, staged,
                                               ignoreLines))
           r == scan_and_categorize_files(disk, status)
       IN /\ statusOk' = ok
          /\ git_files' = status.file_list
          /\ deleted_files' = r.deleted_files
          /\ all_files' = r.all_files
          /\ files_dict' = r.result_dict
          /\ deleted_files_by_dir' = r.deleted_files_by_dir
          /\ IF DOMAIN r.result_dict = {} /\ r.deleted_files = <<>>
             THEN pc' = "exit" /\ exitCode' = 0
             ELSE pc' = "execute" /\ UNCHANGED exitCode
  /\ UNCHANGED splitterVars
  /\ UNCHANGED <<envVars, splitFiles, planVars, mode, cmds, batchNo, returns,
                 committed_size, result, fsChanges, prevBatches, runs>>

\* execute_git_commands, lines 400-404, and main, lines 425-429
SingleShot ==
  /\ pc = "execute"
  /\ SingleShotCase(files_dict, deleted_files)
  /\ \E F \in FailSets(3, cmds, fsChanges) :
       LET cs == run_git_commands(<<"add-A", "commit", "push">>, F, 0, 0)
       IN /\ cmds' = cmds \o cs
          /\ result' = AllOk(cs)
          /\ exitCode' = IF AllOk(cs) THEN 0 ELSE 1
  /\ mode' = "single"
  /\ pc' = "exit"
  /\ UNCHANGED splitterVars
  /\ UNCHANGED <<envVars, splitFiles, scanVars, planVars, batchNo, returns,
                 committed_size, fsChanges, prevBatches, runs>>

\* commit_in_batches, lines 306-375: the planning loop
PlanBatches ==
  /\ pc = "execute"
  /\ ~SingleShotCase(files_dict, deleted_files)
  /\ LET fd == WithDeletedDirs(files_dict, deleted_files_by_dir)
     IN /\ files_dict' = fd
        /\ \E order \in SortedDirs(DOMAIN fd) :
             /\ sorted_dirs' = order
             /\ batches' = PlanBatchesFor(disk, fd, deleted_files_by_dir, order)
  /\ mode' = "batch"
  /\ pc' = "commit"
  /\ UNCHANGED splitterVars
  /\ UNCHANGED <<envVars, splitFiles, statusOk, git_files, deleted_files,
                 all_files,
                 deleted_files_by_dir, cmds, batchNo, returns, committed_size,
                 result, exitCode, fsChanges, prevBatches, runs>>

\* commit_in_batches, lines 378-385: the next batch goes to commit_batch
CommitBatch ==
  /\ pc = "commit"
  /\ batchNo < Len(batches)
  /\ \E F \in FailSets(Len(batches[batchNo + 1].addPaths)
                         + Len(batches[batchNo + 1].deletePaths) + 2,
                       cmds, fsChanges) :
       LET r == commit_batch(disk, batches[batchNo + 1], F, batchNo + 1)
       IN /\ F \subseteq 1..Len(r.cmds)
          /\ cmds' = cmds \o r.cmds
          /\ returns' = Append(returns, [ret |-> r.ret, staged |-> r.staged,
                                         valid |-> r.valid, batch |-> batchNo + 1])
          /\ committed_size' = IF r.ret
                               THEN committed_size + batches[batchNo + 1].totalSizeMB
                               ELSE committed_size
  /\ batchNo' = batchNo + 1
  /\ UNCHANGED splitterVars
  /\ UNCHANGED <<envVars, pc, splitFiles, scanVars, planVars, mode, result,
                 exitCode, fsChanges, prevBatches, runs>>

\* FinishBatches that also ends the loop after a batch that failed
FinishBatchesOnFailure ==
  /\ pc = "commit"
  /\ \/ batchNo = Len(batches)
     \/ batchNo > 0 /\ ~returns[batchNo].ret
  /\ result' = TRUE
  /\ exitCode' = 0
  /\ pc' = "exit"
  /\ UNCHANGED splitterVars
  /\ UNCHANGED <<envVars, splitFiles, scanVars, planVars, mode, cmds, batchNo,
                 returns, committed_size, fsChanges, prevBatches, runs>>

\* commit_in_batches, line 387, and main, lines 425-429
FinishBatches ==
  /\ pc = "commit"
  /\ batchNo = Len(batches)
  /\ result' = TRUE
  /\ exitCode' = 0
  /\ pc' = "exit"
  /\ UNCHANGED splitterVars
  /\ UNCHANGED <<envVars, splitFiles, scanVars, planVars, mode, cmds, batchNo,
                 returns, committed_size, fsChanges, prevBatches, runs>>

\* another process removes a planned file, or puts a deleted one back, while
\* the batches are committed
ExternalChange ==
  /\ pc = "commit"
  /\ batchNo < Len(batches)
  /\ fsChanges + Failed(cmds) < MaxFaults
  /\ \/ \E q \in Range(batches[batchNo + 1].addPaths) :
          /\ Norm(q) \in DOMAIN disk
          /\ disk' = [f \in DOMAIN disk \ {Norm(q)} |-> disk[f]]
     \/ \E q \in Range(batches[batchNo + 1].deletePaths) :
          /\ ~PathExists(disk, q)
          /\ Len(q) > 0 /\ q # <<".">>
          /\ disk' = Put(disk, Norm(q), 0)
  /\ fsChanges' = fsChanges + 1
  /\ UNCHANGED splitterVars
  /\ UNCHANGED <<index, changed, staged, ignoreLines, pc, splitFiles, scanVars,
                 planVars, execVars, prevBatches, runs>>

\* scanning and planning are executed again on the same snapshot, before any
\* command of the earlier execution was issued
\* process_single_large_file(file_path) with the text of the .gitignore
\* beside the file: lines 103-113 rewrite the text, line 124 splits the file
ProcessSingleLargeFile ==
  /\ splitPath # <<>>
  /\ Len(gitignoreVersions) <= MaxCalls
  /\ gitignoreVersions' =
       Append(gitignoreVersions,
              gitignore_update(gitignoreVersions[Len(gitignoreVersions)],
                               Basename(splitPath)))
  /\ splitParts' = SplitParts(splitPath, splitContent, splitChunk)
  /\ UNCHANGED <<envVars, scanVars, planVars, execVars, pc, splitFiles,
                 fsChanges, prevBatches, runs,
                 splitPath, splitContent, splitChunk>>

Rerun ==
  /\ pc = "commit"
  /\ cmds = <<>> /\ batchNo = 0 /\ fsChanges = 0
  /\ runs < MaxRuns
  /\ runs' = runs + 1
  /\ prevBatches' = batches
  /\ pc' = "scan"
  /\ mode' = "none"
  /\ sorted_dirs' = <<>>
  /\ batches' = <<>>
  /\ UNCHANGED splitterVars
  /\ UNCHANGED <<envVars, splitFiles, scanVars, cmds, batchNo, returns,
                 committed_size, result, exitCode, fsChanges>>

(***************************************************************************)
(* Initial states                                                          *)
(***************************************************************************)
T1 == <<"t1">>
F1 == <<"da", "f1">>
F2 == <<"da", "f2">>
G1 == <<"da", "sb", "g1">>
G2 == <<"da", "sb", "g2">>
GitHead == <<".git", "HEAD">>

\* a file of the working tree is absent, untracked ("new"), tracked and
\* modified ("mod"), tracked and unchanged ("clean") or tracked and removed
\* from disk ("del")
Opt(st, size) == [st |-> st, size |-> size]

PlanOptions(p) ==
  CASE p = T1 -> {Opt("absent", 0), Opt("new", 10), Opt("new", 120),
                  Opt("mod", 10), Opt("del", 0)}
    [] p = F1 -> {Opt("absent", 0), Opt("new", 10), Opt("new", 120),
                  Opt("mod", 10), Opt("mod", 60), Opt("mod", 120),
                  Opt("clean", 10), Opt("del", 0)}
    [] p = F2 -> {Opt("absent", 0), Opt("new", 10), Opt("mod", 10),
                  Opt("mod", 60), Opt("clean", 10), Opt("del", 0)}
    [] p = G1 -> {Opt("absent", 0), Opt("mod", 10), Opt("mod", 60),
                  Opt("clean", 60)}
    [] p = G2 -> {Opt("absent", 0), Opt("mod", 60), Opt("clean", 60)}

RunOptions(p) ==
  CASE p = T1 -> {Opt("absent", 0), Opt("new", 10), Opt("del", 0)}
    [] p = F1 -> {Opt("absent", 0), Opt("mod", 10), Opt("mod", 60)}
    [] p = F2 -> {Opt("absent", 0), Opt("mod", 60), Opt("del", 0)}
    [] p = G1 -> {Opt("absent", 0), Opt("clean", 60)}
    [] p = G2 -> {Opt("absent", 0)}

\* the state main() starts in, for the working tree sc (path -> option)
InitTree(sc, stg) ==
  /\ disk = [p \in {q \in DOMAIN sc : sc[q].st \in {"new", "mod", "clean"}}
                     \cup {GitHead} |->
               IF p = GitHead THEN 1 ELSE MB(sc[p].size)]
  /\ index = {q \in DOMAIN sc : sc[q].st \in {"mod", "clean", "del"}}
  /\ changed = {q \in DOMAIN sc : sc[q].st = "mod"}
  /\ staged = stg
  /\ ignoreLines = <<>>
  /\ pc = "start"
  /\ splitFiles = {}
  /\ git_files = <<>>
  /\ deleted_files = <<>>
  /\ all_files = <<>>
  /\ files_dict = <<>>
  /\ deleted_files_by_dir = <<>>
  /\ sorted_dirs = <<>>
  /\ batches = <<>>
  /\ mode = "none"
  /\ cmds = <<>>
  /\ batchNo = 0
  /\ returns = <<>>
  /\ committed_size = 0
  /\ result = FALSE
  /\ exitCode = -1
  /\ fsChanges = 0
  /\ prevBatches = <<>>
  /\ runs = 1
  /\ statusOk = TRUE

\* the state before main() runs; process_single_large_file is looked at on
\* its own below and rests here
InitFrom(sc, stg) ==
  /\ InitTree(sc, stg)
  /\ splitPath = <<>>
  /\ splitContent = <<>>
  /\ splitChunk = 0
  /\ splitParts = <<>>
  /\ gitignoreVersions = <<>>

Tree(o1, o2, o3, o4, o5) ==
  [p \in {T1, F1, F2, G1, G2} |->
     CASE p = T1 -> o1 [] p = F1 -> o2 [] p = F2 -> o3 [] p = G1 -> o4 [] p = G2 -> o5]

\* staging only tells trees with tracked changes apart
StagedChoices(sc) ==
  IF \E q \in DOMAIN sc : sc[q].st \in {"mod", "del"} THEN BOOLEAN ELSE {FALSE}

Init ==
  \E o1 \in RunOptions(T1), o2 \in RunOptions(F1), o3 \in RunOptions(F2),
     o4 \in RunOptions(G1), o5 \in RunOptions(G2) :
    \E stg \in StagedChoices(Tree(o1, o2, o3, o4, o5)) :
      InitFrom(Tree(o1, o2, o3, o4, o5), stg)

InitPlan ==
  \E o1 \in PlanOptions(T1), o2 \in PlanOptions(F1), o3 \in PlanOptions(F2),
     o4 \in PlanOptions(G1), o5 \in PlanOptions(G2) :
    \E stg \in StagedChoices(Tree(o1, o2, o3, o4, o5)) :
      InitFrom(Tree(o1, o2, o3, o4, o5), stg)

\* scenario 4: one directory of n files of 5 MB, untracked or modified
ScenarioFile(i) == <<"da", SegOrder[Rank("x01") + i - 1]>>

InitScenario4 ==
  \E n \in 21..MaxN, st \in {"new", "mod"} :
    \E stg \in (IF st = "mod" THEN BOOLEAN ELSE {FALSE}) :
      InitFrom([p \in {ScenarioFile(i) : i \in 1..n} |-> Opt(st, 5)], stg)

(***************************************************************************)
(* Specifications                                                          *)
(***************************************************************************)
Next ==
  \/ ProcessLargeUntrackedFiles
  \/ ScanAndCategorizeFiles
  \/ SingleShot
  \/ PlanBatches
  \/ CommitBatch
  \/ FinishBatches
  \/ ExternalChange

\* a whole run of main()
Spec == Init /\ [][Next]_vars

NextPlan ==
  \/ ProcessLargeUntrackedFiles
  \/ ScanAndCategorizeFiles
  \/ PlanBatches

\* a run up to the end of the planning loop, over more working trees
SpecPlan == InitPlan /\ [][NextPlan]_vars

\* scenario 4, up to the end of the planning loop
SpecScenario4 == InitScenario4 /\ [][NextPlan]_vars

NextReplan ==
  \/ ProcessLargeUntrackedFiles
  \/ ScanAndCategorizeFiles
  \/ PlanBatches
  \/ Rerun

\* planning, executed again on the unchanged snapshot
SpecReplan == Init /\ [][NextReplan]_vars

\* process_single_large_file on its own: any file of a few bytes and any
\* chunk size with no .gitignore yet, or one file and any .gitignore text
Bytes == {0, 1}

Contents == UNION {[1..n -> Bytes] : n \in 0..MaxLen}

TextPieces == {Newline, "f1", "f1.merged", "x01"}

Texts ==
  {t \in UNION {[1..n -> TextPieces] : n \in 0..MaxText} :
     \A i \in 1..(Len(t) - 1) : t[i] = Newline \/ t[i + 1] = Newline}

InitSplitter ==
  /\ InitTree(<<>>, FALSE)
  /\ splitPath \in {T1, F1}
  /\ splitParts = <<>>
  /\ \/ /\ splitContent \in Contents
        /\ splitChunk \in 1..MaxChunk
        /\ gitignoreVersions = <<<<>>>>
     \/ /\ splitContent = <<1, 0, 1>>
        /\ splitChunk = 2
        /\ gitignoreVersions \in {<<t>> : t \in Texts}

NextSplitter == ProcessSingleLargeFile

SpecSplitter == InitSplitter /\ [][NextSplitter]_vars

(***************************************************************************)
(* Properties                                                              *)
(***************************************************************************)
\* the planning loop of commit_in_batches has run
Planned == mode = "batch"

\* the inventory: the Added files (directories expanded) and the Deleted paths
AddedPaths == {Norm(f.path) : f \in Range(all_files)}
DeletedPaths == {Norm(q) : q \in Range(deleted_files)}

\* the paths of a batch, one after the other
BatchPaths(b) == b.addPaths \o b.deletePaths

\* the places (batch, position) of the planned batches that hold path q
Places(q) ==
  UNION {{<<i, j>> : j \in {k \in 1..Len(BatchPaths(batches[i])) :
                              Norm(BatchPaths(batches[i])[k]) = Norm(q)}} :
         i \in 1..Len(batches)}

PlannedPaths ==
  UNION {{Norm(q) : q \in Range(BatchPaths(batches[i]))} : i \in 1..Len(batches)}

RECURSIVE SumOf(_, _)
SumOf(f, S) ==
  IF S = {} THEN 0
  ELSE LET x == CHOOSE y \in S : TRUE IN f[x] + SumOf(f, S \ {x})

\* C1: the planned batches hold exactly the Added files and the Deleted paths
\* of the inventory, each of them once
C1_BatchesPartitionInventory ==
  Planned =>
    /\ PlannedPaths = AddedPaths \cup DeletedPaths
    /\ \A q \in PlannedPaths : Cardinality(Places(q)) = 1

\* the units of the plan and what the planner takes as the size of each
Units == DOMAIN files_dict
OwnSize(u) == UnitSize(disk, files_dict, u)

\* a directory unit over 100 MB all of whose files are at most 100 MB each
SplittableDir(u) ==
  /\ IsDir(disk, u)
  /\ OwnSize(u) > MB(100)
  /\ \A f \in Range(Walk(disk, u)) : get_file_size_mb(disk, f) <= MB(100)

\* C2: no batch is over 100 MB except one that holds a single unit over 100 MB,
\* and a directory over 100 MB whose files fit is never emitted whole as one batch
C2_BatchesWithinCeiling ==
  Planned =>
    /\ \A i \in 1..Len(batches) :
         batches[i].totalSizeMB > MB(100) =>
           \E u \in Units : batches[i].units = {u} /\ OwnSize(u) > MB(100)
    /\ \A i \in 1..Len(batches) : \A u \in Units :
         SplittableDir(u) =>
           ~(Range(Walk(disk, u)) \subseteq Range(batches[i].addPaths))

\* C3: a file that went through the splitter is in the addPaths of no batch
C3_SplitFileInNoBatch ==
  Planned =>
    \A q \in splitFiles : \A i \in 1..Len(batches) :
      Norm(q) \notin {Norm(a) : a \in Range(batches[i].addPaths)}

\* the commands of batch n (0: the single-shot path) that failed
FailedCmds(n) == {i \in 1..Len(cmds) : cmds[i].batch = n /\ ~cmds[i].ok}

\* C4: the process exits with 0 only when every command succeeded; a failed
\* commit or push of a batch, or a failed command of the single-shot path,
\* makes execute_git_commands return false and the process exit with 1
C4_ExitZeroOnlyOnSuccess ==
  pc = "exit" =>
    /\ exitCode = 0 => \A i \in 1..Len(cmds) : cmds[i].ok
    /\ (\E i \in 1..Len(cmds) :
          ~cmds[i].ok /\ (cmds[i].batch = 0 \/ cmds[i].cmd \in {"commit", "push"}))
         => (result = FALSE /\ exitCode = 1)

\* C5: commit_batch returns True whenever it staged nothing, whether no path
\* was valid or every staging command failed, and then issues no commit or
\* push; it returns False only when the commit or the push failed
C5_NothingStagedIsSuccess ==
  \A k \in 1..Len(returns) :
    /\ returns[k].staged = 0 =>
         /\ returns[k].ret = TRUE
         /\ \A i \in 1..Len(cmds) :
              cmds[i].batch = returns[k].batch => cmds[i].cmd \notin {"commit", "push"}
    /\ returns[k].ret = FALSE =>
         \E i \in FailedCmds(returns[k].batch) : cmds[i].cmd \in {"commit", "push"}

\* C6: planning the same snapshot a second time gives the same batches in the
\* same order
C6_PlanningDeterministic ==
  (runs = 2 /\ Planned) => batches = prevBatches

\* the directories that directly hold an Added file, and their Added files
DirsOfAdded == {Dirname(f.path) : f \in Range(all_files)} \ {<<>>}
Members(d) == {f \in Range(all_files) : Dirname(f.path) = d}

RECURSIVE SizeOfAll(_)
SizeOfAll(S) ==
  IF S = {} THEN 0
  ELSE LET f == CHOOSE g \in S : TRUE IN f.size + SizeOfAll(S \ {f})

\* C7: after the scan, a directory whose Added files sum to at most 50 MB is
\* one unit of that size and none of its files is a unit; a directory over
\* 50 MB is no unit and each of its files is one; a top-level file is a unit
C7_CollapseAtThreshold ==
  pc = "execute" =>
    /\ \A d \in DirsOfAdded :
         IF SizeOfAll(Members(d)) <= MB(50)
         THEN /\ d \in DOMAIN files_dict
              /\ files_dict[d] = SizeOfAll(Members(d))
              /\ \A f \in Members(d) : f.path \notin DOMAIN files_dict
         ELSE /\ d \notin DOMAIN files_dict
              /\ \A f \in Members(d) :
                   f.path \in DOMAIN files_dict /\ files_dict[f.path] = f.size
    /\ \A f \in Range(all_files) :
         Dirname(f.path) = <<>> =>
           f.path \in DOMAIN files_dict /\ files_dict[f.path] = f.size

\* a collapsed directory, a directory left file by file and a top-level file
C7_Witness ==
  /\ pc = "execute"
  /\ SizeOfAll(Members(<<"da">>)) = MB(20)
  /\ SizeOfAll(Members(<<"da", "sb">>)) = MB(120)
  /\ T1 \in DOMAIN files_dict

\* the commands issued so far, by name
CmdNames == [i \in 1..Len(cmds) |-> cmds[i].cmd]

\* C8: the single-shot path is taken exactly when the units sum to at most
\* 100 MB and nothing is deleted; it issues add -A, commit, push and plans no
\* batch; the batch path issues no add -A
C8_SingleShotExactly ==
  /\ mode = "single" =>
       /\ SumOf(files_dict, DOMAIN files_dict) <= MB(100) /\ deleted_files = <<>>
       /\ CmdNames = <<"add-A", "commit", "push">>
       /\ batches = <<>> /\ sorted_dirs = <<>> /\ returns = <<>>
  /\ mode = "batch" =>
       /\ ~(SumOf(files_dict, DOMAIN files_dict) <= MB(100) /\ deleted_files = <<>>)
       /\ "add-A" \notin Range(CmdNames)
  /\ (pc = "exit" /\ mode = "none") =>
       (DOMAIN files_dict = {} /\ deleted_files = <<>> /\ cmds = <<>>)

\* a single-shot run of changes that weigh something
C8_Witness ==
  /\ pc = "exit" /\ mode = "single"
  /\ SumOf(files_dict, DOMAIN files_dict) = MB(70)

\* the inventory of scenario 4: files of 5 MB in one directory, over 100 MB in all
Scenario4Inventory ==
  /\ deleted_files = <<>>
  /\ Len(all_files) * 5 > 100
  /\ Cardinality({f.path : f \in Range(all_files)}) = Len(all_files)
  /\ \A f \in Range(all_files) : f.size = MB(5) /\ Dirname(f.path) = <<"da">>

\* C9: n files of 5 MB in one directory, over 100 MB in all, are planned in
\* ceil(n * 5 / 100) batches of at most 100 MB, each file in exactly one batch
C9_Scenario4Batches ==
  (Planned /\ Scenario4Inventory) =>
    /\ Len(batches) = (Len(all_files) * 5 + 99) \div 100
    /\ \A i \in 1..Len(batches) : batches[i].totalSizeMB <= MB(100)
    /\ \A f \in Range(all_files) : Cardinality(Places(f.path)) = 1
    /\ PlannedPaths = AddedPaths

\* the 30 files of the scenario planned in two batches, visited in an order
\* other than byte order
C9_Witness ==
  /\ Planned /\ Scenario4Inventory
  /\ Len(all_files) = 30
  /\ Len(batches) = 2
  /\ sorted_dirs[1] # ScenarioFile(1)

\* the Deleted paths directly in directory d
DeletedIn(d) == {q \in Range(deleted_files) : DeletedDir(q) = d}

\* C10, first part: a collapsed directory with deletions has its Added files
\* and its Deleted paths together in one batch
C10_TogetherInOneBatch ==
  Planned =>
    \A d \in DirsOfAdded :
      (DeletedIn(d) # {} /\ SizeOfAll(Members(d)) <= MB(50)) =>
        \E i \in 1..Len(batches) :
          /\ {f.path : f \in Members(d)} \subseteq Range(batches[i].addPaths)
          /\ DeletedIn(d) \subseteq Range(batches[i].deletePaths)

\* C10: a collapsed directory with deletions is planned in one batch with its
\* deletions, and when it is the only changed directory that batch is the
\* only one and weighs what the directory's Added files weigh
C10_CollapsedDirWithDeletions ==
  /\ C10_TogetherInOneBatch
  /\ Planned =>
       \A d \in DirsOfAdded :
         (/\ DeletedIn(d) # {}
          /\ SizeOfAll(Members(d)) <= MB(50)
          /\ \A f \in Range(all_files) : Dirname(f.path) = d
          /\ \A q \in Range(deleted_files) : DeletedDir(q) = d) =>
           /\ Len(batches) = 1
           /\ batches[1].totalSizeMB = SizeOfAll(Members(d))

\* the places of the batches' deletePaths that hold path q
DeletePlaces(q) ==
  UNION {{<<i, j>> : j \in {k \in 1..Len(batches[i].deletePaths) :
                              batches[i].deletePaths[k] = q}} :
         i \in 1..Len(batches)}

\* directory d has Deleted paths and no Added file anywhere below it
OnlyDeletions(d) ==
  /\ d \in DOMAIN deleted_files_by_dir
  /\ \A f \in Range(all_files) : d # <<".">> /\ ~IsPrefix(d, Norm(f.path))

\* C11: a directory whose only changes are deletions has each of its Deleted
\* paths in exactly one batch and brings no addPaths and no size to a batch;
\* no Deleted path of the inventory is missing from the batches
C11_DeletionOnlyDirectory ==
  Planned =>
    /\ \A q \in Range(deleted_files) : DeletePlaces(q) # {}
    /\ \A d \in DOMAIN deleted_files_by_dir :
         OnlyDeletions(d) =>
           /\ \A q \in Range(deleted_files_by_dir[d]) :
                Cardinality(DeletePlaces(q)) = 1
           /\ \A i \in 1..Len(batches) :
                batches[i].units = {d} =>
                  batches[i].addPaths = <<>> /\ batches[i].totalSizeMB = 0

\* the lines the status query answered to the scan
StatusLines == GitStatus(disk, index, changed, staged, ignoreLines)

PathsOf(lines) == [i \in 1..Len(lines) |-> lines[i].path]

\* C12: get_git_status yields one entry per status line, the path of the line
\* character for character, in the Deleted list iff X or Y is D and in the
\* Added list otherwise, the first line included
C12_StatusLinesParsedExactly ==
  pc = "execute" =>
    /\ deleted_files =
         PathsOf(SelectSeq(StatusLines, LAMBDA l : "D" \in Range(l.xy)))
    /\ git_files =
         PathsOf(SelectSeq(StatusLines, LAMBDA l : "D" \notin Range(l.xy)))

\* C13: when the status query of get_git_status fails, the Added and Deleted
\* lists are empty and the run ends without any add, rm, commit or push
C13_FailedStatusQueryIssuesNothing ==
  ~statusOk =>
    /\ git_files = <<>> /\ deleted_files = <<>>
    /\ DOMAIN files_dict = {}
    /\ cmds = <<>>
    /\ pc = "exit" /\ mode = "none"

\* the query failed on a working tree with changes to commit
C13_Witness ==
  /\ ~statusOk /\ pc = "exit"
  /\ StatusLines # <<>>

\* process_single_large_file has run
Called == Len(gitignoreVersions) >= 2

\* ceil(S / C) for the file and the chunk size at hand
NumParts == (Len(splitContent) + splitChunk - 1) \div splitChunk

\* '<filename>-split/<filename>-part<k as 4 digits>' beside the file
PartPath(k) ==
  Join(Join(Dirname(splitPath), SplitDirName(Basename(splitPath))),
       PartName(Basename(splitPath), k))

\* C14: splitting a file of S bytes with chunk size C writes exactly
\* ceil(S / C) parts, numbered from 1 without gaps in '<filename>-split/';
\* no part is longer than C, every part but the last is exactly C long, and
\* the parts in part-number order concatenate to the bytes of the file
C14_SplitWritesExactParts ==
  Called =>
    /\ DOMAIN splitParts = {PartPath(k) : k \in 1..NumParts}
    /\ Cardinality(DOMAIN splitParts) = NumParts
    /\ \A k \in 1..NumParts :
         /\ Len(splitParts[PartPath(k)]) <= splitChunk
         /\ k < NumParts => Len(splitParts[PartPath(k)]) = splitChunk
    /\ Concat([k \in 1..NumParts |-> splitParts[PartPath(k)]]) = splitContent

\* a file of two whole chunks and a shorter third one has been split
C14_Witness ==
  /\ Called
  /\ NumParts = 3
  /\ Len(splitParts[PartPath(1)]) = splitChunk
  /\ Len(splitParts[PartPath(2)]) = splitChunk
  /\ Len(splitParts[PartPath(3)]) < splitChunk

\* the lines of the .gitignore before (i = 1) and after the i-1 th call
LinesAt(i) == splitlines(gitignoreVersions[i])

\* the patterns of the file at hand that are no line of the given lines
MissingPatterns(lines) ==
  SelectSeq(<<Basename(splitPath), MergedName(Basename(splitPath))>>,
            LAMBDA p : p \notin Range(lines))

\* C15: the update of the .gitignore keeps the lines the file had, in their
\* order, as a prefix of the new content, appends each of '<name>' and
\* '<name>.merged' only when it was not a line yet, and a second application
\* for the same file leaves the line sequence as it is
C15_IgnoreUpdateAppendsOnly ==
  \A i \in 1..(Len(gitignoreVersions) - 1) :
    /\ IsPrefix(LinesAt(i), LinesAt(i + 1))
    /\ LinesAt(i + 1) = LinesAt(i) \o MissingPatterns(LinesAt(i))
    /\ i >= 2 => LinesAt(i + 1) = LinesAt(i)

\* the commands a step has issued
NewCmds == SubSeq(cmds', Len(cmds) + 1, Len(cmds'))

\* the paths, in order, of the commands of one kind
CmdPaths(cs, kind) ==
  LET sel == SelectSeq(cs, LAMBDA c : c.cmd = kind)
  IN [i \in 1..Len(sel) |-> sel[i].path]

NormAll(ps) == [i \in 1..Len(ps) |-> Norm(ps[i])]

\* C16: commit_batch issues 'git add' for exactly the addPaths that exist on
\* disk and 'git rm' for exactly the deletePaths that are absent, one command
\* for each path whether or not an earlier one failed; a commit followed by a
\* push comes after them iff at least one of these commands succeeded
C16_StagingAndCommitOfBatch ==
  [][batchNo' = batchNo + 1 =>
       LET b == batches[batchNo']
           new == NewCmds
           staging == SelectSeq(new, LAMBDA c : c.cmd \in {"add", "rm"})
       IN /\ CmdPaths(new, "add")
               = NormAll(SelectSeq(b.addPaths, LAMBDA q : PathExists(disk, q)))
          /\ CmdPaths(new, "rm")
               = NormAll(SelectSeq(b.deletePaths, LAMBDA q : ~PathExists(disk, q)))
          /\ SubSeq(new, 1, Len(staging)) = staging
          /\ IF \E i \in 1..Len(staging) : staging[i].ok
             THEN /\ Len(new) = Len(staging) + 2
                  /\ new[Len(staging) + 1].cmd = "commit"
                  /\ new[Len(staging) + 2].cmd = "push"
             ELSE new = staging]_vars

\* in one batch a staging command failed, a later one succeeded, and the
\* commit and the push of the batch followed
C16_Witness ==
  \E i, j, k \in 1..Len(cmds) :
    /\ i < j /\ j < k /\ k < Len(cmds)
    /\ cmds[i].cmd \in {"add", "rm"} /\ ~cmds[i].ok
    /\ cmds[j].cmd \in {"add", "rm"} /\ cmds[j].ok
    /\ cmds[k].cmd = "commit" /\ cmds[k + 1].cmd = "push"
    /\ cmds[i].batch = cmds[j].batch /\ cmds[j].batch = cmds[k].batch
    /\ cmds[k + 1].batch = cmds[k].batch

\* C17: in the batch path the batches are handed to commit_batch one after
\* the other in increasing number, each exactly once, whatever the earlier
\* ones returned; the commands of a batch all come before those of the next,
\* and when the run ends every planned batch has been handed over
C17_EveryBatchAttemptedInOrder ==
  mode = "batch" =>
    /\ Len(returns) = batchNo
    /\ batchNo <= Len(batches)
    /\ \A k \in 1..Len(returns) : returns[k].batch = k
    /\ \A i \in 1..Len(cmds) : cmds[i].batch \in 1..batchNo
    /\ \A i, j \in 1..Len(cmds) : i < j => cmds[i].batch <= cmds[j].batch
    /\ pc = "exit" => Len(returns) = Len(batches)

\* a run has ended whose first batch failed and whose second batch was
\* committed and pushed all the same
C17_Witness ==
  /\ mode = "batch"
  /\ pc = "exit"
  /\ Len(batches) >= 2
  /\ ~returns[1].ret
  /\ \E i \in 1..Len(cmds) : cmds[i].batch = 1 /\ ~cmds[i].ok
  /\ \E i \in 1..Len(cmds) : cmds[i].batch = 2 /\ cmds[i].cmd = "push"

\* the Added files whose size unit u carries: the file that is the unit, or
\* the files right in the directory that is the unit
AccountedBy(u) ==
  SelectSeq(all_files, LAMBDA f : f.path = u \/ Dirname(f.path) = u)

\* C18: after the scan every Added file (directories expanded) is accounted
\* for by exactly one unit, the one of its immediate directory or its own;
\* each unit carries the sizes of its files once, and the unit sizes sum to
\* the sizes of all Added files
C18_EachAddedFileInOneUnit ==
  pc = "execute" =>
    /\ \A i \in 1..Len(all_files) :
         Cardinality({u \in DOMAIN files_dict :
                        u = all_files[i].path \/ u = Dirname(all_files[i].path)}) = 1
    /\ \A i, j \in 1..Len(all_files) :
         all_files[i].path = all_files[j].path => i = j
    /\ \A u \in DOMAIN files_dict : files_dict[u] = SumSize(AccountedBy(u))
    /\ SumOf(files_dict, DOMAIN files_dict) = SumSize(all_files)

\* a scan that left one directory as a single unit of several files and
\* another directory file by file
C18_Witness ==
  /\ pc = "execute"
  /\ \E u \in DOMAIN files_dict : Len(AccountedBy(u)) >= 2
  /\ \E i \in 1..Len(all_files) :
       /\ all_files[i].path \in DOMAIN files_dict
       /\ Dirname(all_files[i].path) # <<>>
  /\ SumSize(all_files) > MB(CeilingMB)

\* C19: in the single-shot path and in commit_batch a push is issued only
\* right after the commit of the same step, and only when that commit
\* succeeded
C19_PushOnlyAfterCommitSucceeded ==
  \A i \in 1..Len(cmds) :
    cmds[i].cmd = "push" =>
      /\ i > 1
      /\ cmds[i - 1].cmd = "commit"
      /\ cmds[i - 1].batch = cmds[i].batch
      /\ cmds[i - 1].ok

====
